---------------------------- MODULE Spec2Model ----------------------------
(***************************************************************************)
(* Model of the per-topic auto-answering engine of discord-auto-faq        *)
(* (core/classifier.py): Store.load_classifiers and the AutoFaq handlers.  *)
(*                                                                         *)
(* Texts are sequences of one-character strings.  The scikit-learn         *)
(* objects are modelled by what the code relies on: train_test_split by    *)
(* the choice of the held-out index set, CountVectorizer by the documents  *)
(* it was fitted on (its vocabulary), SVC by the labelled documents it was *)
(* fitted on (its classes_) and predict_proba by a choice of the most      *)
(* probable column and of its probability.  core.files (Data, Config,      *)
(* LinkedFaqEntry) is not part of the sources and is modelled from the     *)
(* specification's data-access contract.                                   *)
(***************************************************************************)
EXTENDS Integers, Sequences, FiniteSets, TLC

\* ------------------------------------------------------------ bounds
\* Most examples (nonsense and entry examples together) curators add.
MaxAdded == 1
\* Most votes cast on a topic.
MaxVotes == 2
\* Most add_message_by_short handlers suspended at their await at once.
MaxTasks == 1
\* Most votes cast on a topic where only votes and incoming messages arrive.
MaxBallots == 10

\* ------------------------------------------------------------ texts
SP == " "

\* "ab  ab": two words around a repeated space.
MsgGap == <<"a", "b", SP, SP, "a", "b">>
\* "? ? ?": three tokens, nothing left after cleaning.
MsgPunct == <<"?", SP, "?", SP, "?">>
\* "a": one one-letter word.
MsgOne == <<"a">>

\* The chat messages handlers are called with.
Messages == {MsgGap, MsgPunct, MsgOne}

RECURSIVE SplitAt(_, _, _)
\* str.split(sep) with an explicit separator: the pieces between every
\* occurrence of sep, empty pieces kept.  cur is the piece being read.
SplitAt(s, sep, cur) ==
    IF s = <<>> THEN <<cur>>
    ELSE IF Head(s) = sep THEN <<cur>> \o SplitAt(Tail(s), sep, <<>>)
    ELSE SplitAt(Tail(s), sep, Append(cur, Head(s)))

\* message.split(" ")
SplitSpace(s) == SplitAt(s, SP, <<>>)

Letters == {"a", "b"}

RECURSIVE JoinWords(_)
\* " ".join(words)
JoinWords(ws) ==
    IF ws = <<>> THEN <<>>
    ELSE IF Len(ws) = 1 THEN ws[1]
    ELSE ws[1] \o <<SP>> \o JoinWords(Tail(ws))

\* Data.clean_message: the characters that are no letters are dropped and
\* the remaining words are joined by single spaces.
clean_message(raw) ==
    LET kept == SelectSeq(raw, LAMBDA c : c \in Letters \/ c = SP)
        words == SelectSeq(SplitSpace(kept), LAMBDA w : w # <<>>)
    IN JoinWords(words)

\* str.lower on the short keys the model uses.
Lower(s) ==
    CASE s = "FAQ" -> "faq"
      [] s = "Ignore" -> "ignore"
      [] OTHER -> s

\* CountVectorizer's tokens of a document: the words of two or more
\* characters (token_pattern \w\w+).
Tokens(doc) == {w \in {SplitSpace(doc)[i] : i \in 1..Len(SplitSpace(doc))} : Len(w) >= 2}

\* The vocabulary CountVectorizer.fit learns from docs.
Vocabulary(docs) == UNION {Tokens(docs[i]) : i \in 1..Len(docs)}


\* ------------------------------------------------------------ Data (core.files)
\* A topic's corpus is [nonsense, entries]; an entry is
\* [short, answer, messages, up, down] and its id is its position, from 0.

\* A corpus with no nonsense example and no entry.
EmptyData == [nonsense |-> <<>>, entries |-> <<>>]

\* A new LinkedFaqEntry: no example, no vote.
NewEntry(answer, short) ==
    [short |-> short, answer |-> answer, messages |-> <<>>, up |-> 0, down |-> 0]

\* The ids of the entries of d.
EntryIds(d) == {i - 1 : i \in 1..Len(d.entries)}

\* Data.faq_entry(id)
faq_entry(d, id) == d.entries[id + 1]

\* The number of examples of d, nonsense included.
NumExamples(d) ==
    LET F[k \in 0..Len(d.entries)] ==
            IF k = 0 THEN 0 ELSE F[k - 1] + Len(d.entries[k].messages)
    IN Len(d.nonsense) + F[Len(d.entries)]

\* The number of votes cast on the entries of d.
NumVotes(d) ==
    LET F[k \in 0..Len(d.entries)] ==
            IF k = 0 THEN 0 ELSE F[k - 1] + d.entries[k].up + d.entries[k].down
    IN F[Len(d.entries)]

\* Data.is_valid: the topic is trainable unless it has fewer than two
\* classes (class 0 exists once an entry does) or no example at all.
is_valid(d) == Len(d.entries) >= 1 /\ NumExamples(d) >= 1

\* Data.faq_entry_by_short: the ids whose short is the given one, compared
\* without case (empty: None).
faq_entry_by_short(d, short) ==
    {id \in EntryIds(d) : Lower(faq_entry(d, id).short) = Lower(short)}

\* Data.faq_entry_by_answer: the ids whose answer is exactly the given one.
faq_entry_by_answer(d, answer) ==
    {id \in EntryIds(d) : faq_entry(d, id).answer = answer}

\* The entry a lookup returns: the first match.
FirstOf(ids) == CHOOSE id \in ids : \A other \in ids : id <= other

\* Data.add_nonsense
add_nonsense(d, content) == [d EXCEPT !.nonsense = Append(@, content)]

\* LinkedFaqEntry.add_message
add_message(d, id, content) ==
    [d EXCEPT !.entries[id + 1].messages = Append(@, content)]

\* Data.add_faq_entry
add_faq_entry(d, answer, short) ==
    [d EXCEPT !.entries = Append(@, NewEntry(answer, short))]

\* LinkedFaqEntry.vote_up
vote_up(d, id) == [d EXCEPT !.entries[id + 1].up = @ + 1]

\* LinkedFaqEntry.vote_down
vote_down(d, id) == [d EXCEPT !.entries[id + 1].down = @ + 1]

\* ------------------------------------------------------------ AutoFaq: fitting
\* A fraction num/den; num = 0 stands for test_split=None.
NoSplit == [num |-> 0, den |-> 1]
\* test_split=0.3 of the scored instance load_classifiers builds.
ScoredSplit == [num |-> 3, den |-> 10]
\* train_test_split's test_size when the caller passes None.
DefaultTestSize == [num |-> 1, den |-> 4]
\* min_threshold=0.3 and max_threshold=0.7
MinThreshold == [num |-> 3, den |-> 10]
MaxThreshold == [num |-> 7, den |-> 10]

\* self.vectorizer / self.classifier before __load__ assigns them.
NoVectorizer == [state |-> "None", docs |-> <<>>]
NoClassifier == [state |-> "None", docs |-> <<>>, y |-> <<>>,
                 seen |-> [sentences |-> <<>>, y |-> <<>>]]

\* The elements of s at the positions in I, in order.
Pick(s, I) ==
    LET F[k \in 0..Len(s)] ==
            IF k = 0 THEN <<>>
            ELSE IF k \in I THEN Append(F[k - 1], s[k]) ELSE F[k - 1]
    IN F[Len(s)]

\* The values of a sequence.
Range(s) == {s[i] : i \in 1..Len(s)}

\* The sorted distinct values of y (np.unique, SVC.classes_).
Unique(y) ==
    LET S == Range(y)
        F[k \in 0..Cardinality(S)] ==
            IF k = 0 THEN <<>>
            ELSE Append(F[k - 1],
                        CHOOSE v \in S : Cardinality({w \in S : w < v}) = k - 1)
    IN F[Cardinality(S)]

\* AutoFaq.__get_data__, the labelled sentences: the nonsense examples with
\* label 0, then every entry's examples with label id + 1.
Labelled(d) ==
    LET F[k \in 0..Len(d.entries)] ==
            IF k = 0
            THEN [sentences |-> d.nonsense, y |-> [i \in 1..Len(d.nonsense) |-> 0]]
            ELSE [sentences |-> F[k - 1].sentences \o d.entries[k].messages,
                  y |-> F[k - 1].y \o [i \in 1..Len(d.entries[k].messages) |-> k]]
    IN F[Len(d.entries)]

\* The test_size train_test_split works with.
TestSize(self) == IF self.test_split.num = 0 THEN DefaultTestSize ELSE self.test_split

\* train_test_split's n_test = ceil(test_size * n_samples).
NumTest(self, n) ==
    (TestSize(self).num * n + TestSize(self).den - 1) \div TestSize(self).den

\* The held-out index sets train_test_split's shuffle can produce for the
\* corpus self.data holds (one empty set where no split is made).
Splits(self) ==
    LET n == Len(Labelled(self.data).y)
    IN IF is_valid(self.data) /\ n - NumTest(self, n) > 0
       THEN {T \in SUBSET (1..n) : Cardinality(T) = NumTest(self, n)}
       ELSE {{}}

\* What a call leaves behind: the object and the exception it raised.
Ok(self) == [self |-> self, raised |-> "none"]
Raise(self, exc) == [self |-> self, raised |-> exc]

\* AutoFaq.__load_vectorizer__: a new CountVectorizer is assigned, then
\* fitted; fit_transform raises on an empty vocabulary.
load_vectorizer(self, sentences_train) ==
    IF Vocabulary(sentences_train) = {}
    THEN Raise([self EXCEPT !.vectorizer = [state |-> "unfitted", docs |-> <<>>]],
               "ValueError")
    ELSE Ok([self EXCEPT !.vectorizer = [state |-> "fitted", docs |-> sentences_train]])

\* AutoFaq.__load_classifier__: a new SVC is assigned, then fitted; fit
\* raises when y_train holds fewer than two classes.
load_classifier(self, X_train, y_train, seen) ==
    IF Cardinality(Range(y_train)) < 2
    THEN Raise([self EXCEPT !.classifier =
                    [state |-> "unfitted", docs |-> <<>>, y |-> <<>>, seen |-> seen]],
               "ValueError")
    ELSE Ok([self EXCEPT !.classifier =
                    [state |-> "fitted", docs |-> X_train, y |-> y_train, seen |-> seen]])

\* The scoring of the held-out split: class_weights has one cell per
\* distinct label of y and is indexed by the label itself.
score(self, y_test, y) ==
    IF \E i \in 1..Len(y_test) : y_test[i] >= Len(Unique(y))
    THEN Raise(self, "IndexError")
    ELSE Ok(self)

\* AutoFaq.__load__ with T the held-out index set train_test_split draws.
load(self, T) ==
    IF ~is_valid(self.data) THEN Ok(self)
    ELSE LET d == Labelled(self.data)
             n == Len(d.y)
             train == (1..n) \ T
         IN IF n - NumTest(self, n) <= 0 THEN Raise(self, "ValueError")
            ELSE LET v == load_vectorizer(self, Pick(d.sentences, train))
                 IN IF v.raised # "none" THEN v
                    ELSE LET c == load_classifier(v.self, Pick(d.sentences, train),
                                                  Pick(d.y, train), d)
                         IN IF c.raised # "none" THEN c
                            ELSE IF self.test_split.num = 0 THEN c
                            ELSE score(c.self, Pick(d.y, T), d.y)

\* AutoFaq.__init__: the fields, then __load__.
AutoFaq(topic, test_split, stored, T) ==
    load([topic |-> topic, test_split |-> test_split, data |-> stored,
          classifier |-> NoClassifier, vectorizer |-> NoVectorizer], T)

\* AutoFaq.refit: the topic's data is read again, then __load__.
refit(self, stored, T) == load([self EXCEPT !.data = stored], T)

\* ------------------------------------------------------------ AutoFaq: inference
\* What predict hands back: ret is "none_none" for (None, None), "nonsense"
\* for (None, p), "entry" for (id, p) and "raise" when it raises; col is the
\* arg-max column of predict_proba and class the label classes_ holds there.
NoneNone ==
    [ret |-> "none_none", id |-> 0, p |-> 0, col |-> 0, class |-> 0, raised |-> "none"]
PredictRaise(exc) ==
    [ret |-> "raise", id |-> 0, p |-> 0, col |-> 0, class |-> 0, raised |-> exc]

\* The probabilities (in hundredths) predict_proba's largest cell takes.
Probs == {40, 50, 70}

\* The arg-max columns and largest probabilities predict_proba can give:
\* one column per class seen by fit, the largest of k cells at least 1/k.
ProbaChoices(self) ==
    IF self.classifier.state = "fitted"
    THEN {c \in (0..(Len(Unique(self.classifier.y)) - 1)) \X Probs :
              c[2] * Len(Unique(self.classifier.y)) >= 100}
    ELSE {<<0, 0>>}

\* predict without its check that a classifier is installed.
predict_unchecked(self, message, argmax, p) ==
    IF Len(SplitSpace(message)) < 3 THEN NoneNone
    ELSE IF Len(clean_message(message)) = 0 THEN NoneNone
    ELSE IF self.vectorizer.state # "fitted" THEN PredictRaise("AttributeError")
    ELSE IF self.classifier.state # "fitted" THEN PredictRaise("AttributeError")
    ELSE [ret |-> IF argmax > 0 THEN "entry" ELSE "nonsense",
          id |-> IF argmax > 0 THEN argmax - 1 ELSE 0,
          p |-> p, col |-> argmax,
          class |-> Unique(self.classifier.y)[argmax + 1], raised |-> "none"]

\* AutoFaq.predict, with argmax and p what predict_proba gives.
predict(self, message, argmax, p) ==
    IF self.classifier.state = "None" THEN NoneNone
    ELSE IF Len(SplitSpace(message)) < 3 THEN NoneNone
    ELSE IF Len(clean_message(message)) = 0 THEN NoneNone
    ELSE IF self.vectorizer.state # "fitted" THEN PredictRaise("NotFittedError")
    ELSE IF self.classifier.state # "fitted" THEN PredictRaise("NotFittedError")
    ELSE [ret |-> IF argmax > 0 THEN "entry" ELSE "nonsense",
          id |-> IF argmax > 0 THEN argmax - 1 ELSE 0,
          p |-> p, col |-> argmax,
          class |-> Unique(self.classifier.y)[argmax + 1], raised |-> "none"]

\* math.log(votes) in thousandths: ln 2 = 0.693, and ln 3 = 1.099 stands
\* for every larger value (only min(.., 1) is used).
LogMilli(votes) ==
    CASE votes = 1 -> 0
      [] votes = 2 -> 693
      [] OTHER -> 1099

\* The smaller of two numbers.
Min(a, b) == IF a <= b THEN a ELSE b

\* __calculate_threshold__ with the importance left uncapped (math.log(votes)
\* in place of min(math.log(votes), 1)).
calculate_threshold_uncapped(self, answer_id) ==
    LET entry == faq_entry(self.data, answer_id)
        votes == entry.up + entry.down
        lo == MinThreshold
        hi == MaxThreshold
    IN IF votes = 0
       THEN [num |-> lo.num * hi.den + hi.num * lo.den, den |-> 2 * lo.den * hi.den]
       ELSE LET importance == LogMilli(votes)
                rnum == 2 * importance * entry.up + (1000 - importance) * votes
                rden == 2 * 1000 * votes
            IN [num |-> rnum * lo.num * hi.den + (rden - rnum) * hi.num * lo.den,
                den |-> rden * lo.den * hi.den]

\* __calculate_threshold__ with the two thresholds swapped in its last line
\* (ratio * max_threshold + (1 - ratio) * min_threshold).
calculate_threshold_swapped(self, answer_id) ==
    LET entry == faq_entry(self.data, answer_id)
        votes == entry.up + entry.down
        lo == MinThreshold
        hi == MaxThreshold
    IN IF votes = 0
       THEN [num |-> lo.num * hi.den + hi.num * lo.den, den |-> 2 * lo.den * hi.den]
       ELSE LET importance == Min(LogMilli(votes), 1000)
                rnum == 2 * importance * entry.up + (1000 - importance) * votes
                rden == 2 * 1000 * votes
            IN [num |-> rnum * hi.num * lo.den + (rden - rnum) * lo.num * hi.den,
                den |-> rden * lo.den * hi.den]

\* __calculate_threshold__ returning the midpoint whatever the votes
\* (entry.votes() >= 0 in place of entry.votes() == 0).
calculate_threshold_neutral(self, answer_id) ==
    LET lo == MinThreshold
        hi == MaxThreshold
    IN [num |-> lo.num * hi.den + hi.num * lo.den, den |-> 2 * lo.den * hi.den]

\* AutoFaq.__calculate_threshold__, as the fraction num/den.
calculate_threshold(self, answer_id) ==
    LET entry == faq_entry(self.data, answer_id)
        votes == entry.up + entry.down
        lo == MinThreshold
        hi == MaxThreshold
    IN IF votes = 0
       THEN [num |-> lo.num * hi.den + hi.num * lo.den, den |-> 2 * lo.den * hi.den]
       ELSE LET importance == Min(LogMilli(votes), 1000)
                rnum == 2 * importance * entry.up + (1000 - importance) * votes
                rden == 2 * 1000 * votes
            IN [num |-> rnum * lo.num * hi.den + (rden - rnum) * hi.num * lo.den,
                den |-> rden * lo.den * hi.den]

\* p > threshold: the comparison made strict.
AboveStrictly(p, threshold) == p * threshold.den > threshold.num * 100

\* p >= threshold, p in hundredths.
AtLeast(p, threshold) == p * threshold.den >= threshold.num * 100

\* apply_vote counting a vote of 0 as an up vote.
apply_vote_nonneg(d, answer_id, vote) ==
    IF vote >= 0 THEN vote_up(d, answer_id)
    ELSE vote_down(d, answer_id)

\* apply_vote where a down vote takes an up vote back.
apply_vote_net(d, answer_id, vote) ==
    IF vote > 0 THEN vote_up(d, answer_id)
    ELSE IF vote < 0 THEN [d EXCEPT !.entries[answer_id + 1].up = @ - 1]
    ELSE d

\* AutoFaq.apply_vote on the topic's data.
apply_vote(d, answer_id, vote) ==
    IF vote > 0 THEN vote_up(d, answer_id)
    ELSE IF vote < 0 THEN vote_down(d, answer_id)
    ELSE d

\* ------------------------------------------------------------ state
VARIABLES
    config,       \* Config.topics(): the configured topics, in order
    disk,         \* the stored corpus of every topic (what Data(topic) reads)
    classifiers,  \* Store.classifiers: topic -> AutoFaq
    loadPc,       \* where load_classifiers stands
    views,        \* the AutoResponseViews sent: [topic, answer_id] of each vote callback
    tasks,        \* the add_message_by_short handlers suspended at their reply
    added,        \* how many examples were added since the start
    last          \* what the last handler step did

vars == <<config, disk, classifiers, loadPc, views, tasks, added, last>>

\* The texts examples are stored as.
TxtTwo == clean_message(MsgGap)
TxtOne == clean_message(MsgOne)

\* The short keys and answers curators type.
Tokens4Add == {"ignore", "FAQ", "zzz"}
Shorts == {"faq", "ignore", "Ignore"}
Answers == {"A1", "A2"}
Votes == {-1, 0, 1}

\* A call a handler makes on a collaborator.
Call(f, arg, view) == [f |-> f, arg |-> arg, view |-> view]

\* The record of a handler step, before its fields are filled in.
NoLog ==
    [op |-> "none", topic |-> "", msg |-> <<>>, short |-> "", answer |-> "",
     id |-> 0, vote |-> 0, pred |-> NoneNone, calls |-> <<>>,
     raised |-> "none", ret |-> "none"]

\* Stored corpora a topic can start from.
StoredOneEntry ==
    [nonsense |-> <<TxtTwo>>,
     entries |-> <<[NewEntry("A1", "faq") EXCEPT !.messages = <<TxtTwo, TxtOne>>]>>]
StoredGapEntry ==
    [nonsense |-> <<TxtTwo, TxtOne>>,
     entries |-> <<NewEntry("A1", "faq"),
                   [NewEntry("A2", "hrs") EXCEPT !.messages = <<TxtTwo>>]>>]
StoredNoNonsense ==
    [nonsense |-> <<>>,
     entries |-> <<[NewEntry("A1", "faq") EXCEPT !.messages = <<TxtTwo, TxtOne>>],
                   [NewEntry("A2", "hrs") EXCEPT !.messages = <<TxtTwo>>]>>]
StoredCorpora == {EmptyData, StoredOneEntry, StoredGapEntry, StoredNoNonsense}

\* An empty registry (self.classifiers = {}).
NoClassifiers == [t \in {} |-> NoLog]

\* The state after Store.__init__, one topic configured.
Init ==
    /\ config = <<"faq">>
    /\ disk \in [{"faq"} -> StoredCorpora]
    /\ classifiers = NoClassifiers
    /\ loadPc = [state |-> "start", idx |-> 1, in |-> "none", exc |-> "none"]
    /\ views = {}
    /\ tasks = {}
    /\ added = 0
    /\ last = NoLog

\* The object whose split train_test_split draws: only its data and
\* test_split matter.
Shell(test_split, stored) == [test_split |-> test_split, data |-> stored]

\* Store.load_classifiers, one turn of its loop: the scored instance is
\* built, then the serving one, which is installed.
load_classifiers ==
    /\ loadPc.state \in {"start", "loop"}
    /\ LET topic == config[loadPc.idx]
       IN \E T1 \in Splits(Shell(ScoredSplit, disk[topic])),
             T2 \in Splits(Shell(NoSplit, disk[topic])) :
            LET scored == AutoFaq(topic, ScoredSplit, disk[topic], T1)
                serving == AutoFaq(topic, NoSplit, disk[topic], T2)
                registry == IF loadPc.state = "start" THEN NoClassifiers ELSE classifiers
            IN IF scored.raised # "none"
               THEN /\ loadPc' = [loadPc EXCEPT !.state = "raised", !.in = "scored",
                                                !.exc = scored.raised]
                    /\ classifiers' = registry
               ELSE IF serving.raised # "none"
               THEN /\ loadPc' = [loadPc EXCEPT !.state = "raised", !.in = "serving",
                                                !.exc = serving.raised]
                    /\ classifiers' = registry
               ELSE /\ loadPc' = IF loadPc.idx = Len(config)
                                 THEN [loadPc EXCEPT !.state = "done"]
                                 ELSE [loadPc EXCEPT !.state = "loop", !.idx = @ + 1]
                    /\ classifiers' = registry @@ (topic :> serving.self)
    /\ UNCHANGED <<config, disk, views, tasks, added, last>>

\* A handler runs on a topic once the registry is loaded, when the event
\* loop hands it an event.
Serving(topic) ==
    /\ loadPc.state = "done"
    /\ topic \in DOMAIN classifiers
    /\ last.op = "none"

\* A handler returned or is suspended at an await: control is back at the
\* event loop, and what the step did is no longer at hand.
event_loop ==
    /\ last.op # "none"
    /\ last' = NoLog
    /\ UNCHANGED <<config, disk, classifiers, loadPc, views, tasks, added>>

\* AutoFaq.check_message (with send_faq): predict, the threshold, the reply.
check_message(topic, message) ==
    /\ Serving(topic)
    /\ LET self == classifiers[topic]
       IN \E c \in ProbaChoices(self) :
            LET pred == predict(self, message, c[1], c[2])
                log == [NoLog EXCEPT !.op = "check_message", !.topic = topic,
                                     !.msg = message, !.pred = pred,
                                     !.raised = pred.raised]
            IN IF pred.ret # "entry"
               THEN /\ last' = log
                    /\ views' = views
               ELSE LET entry == faq_entry(self.data, pred.id)
                        threshold == calculate_threshold(self, pred.id)
                    IN IF AtLeast(pred.p, threshold)
                       THEN /\ last' = [log EXCEPT !.id = pred.id,
                                           !.calls = <<Call("reply", entry.answer, TRUE)>>]
                            /\ views' = views \cup {[topic |-> topic, id |-> pred.id]}
                       ELSE /\ last' = [log EXCEPT !.id = pred.id]
                            /\ views' = views
    /\ UNCHANGED <<config, disk, classifiers, loadPc, tasks, added>>

\* The vote callback of a view check_message sent: AutoFaq.apply_vote, while
\* fewer than most votes were cast on the topic.
cast_vote(view, vote, most) ==
    /\ Serving(view.topic)
    /\ view \in views
    /\ NumVotes(disk[view.topic]) < most
    /\ LET self == classifiers[view.topic]
           d == apply_vote(self.data, view.id, vote)
       IN /\ classifiers' = [classifiers EXCEPT ![view.topic].data = d]
          /\ disk' = [disk EXCEPT ![view.topic] = apply_vote(@, view.id, vote)]
    /\ last' = [NoLog EXCEPT !.op = "apply_vote", !.topic = view.topic,
                             !.id = view.id, !.vote = vote]
    /\ UNCHANGED <<config, loadPc, views, tasks, added>>

\* The vote callback among the curators' handlers.
vote_callback(view, vote) == cast_vote(view, vote, MaxVotes)

\* add_message_by_short, lines 162 and 196: the "unclear" reaction on the
\* command, and nothing else.
signal_unclear(log) ==
    /\ last' = [log EXCEPT !.calls = <<Call("add_reaction", "unclear", FALSE)>>]
    /\ UNCHANGED <<disk, classifiers, tasks, added>>

\* add_message_by_short, lines 168-183: the content joins the nonsense
\* examples, the topic is refitted, the bot's reply to the referenced message
\* is deleted when the history holds one (found), the command gets "done".
file_nonsense(topic, log, content, found) ==
    /\ added < MaxAdded
    /\ LET self == classifiers[topic]
           stored == add_nonsense(disk[topic], content)
           appended == [self EXCEPT !.data = add_nonsense(@, content)]
       IN \E T \in Splits(Shell(self.test_split, stored)) :
            LET r == refit(appended, stored, T)
                done == <<Call("add_nonsense", "", FALSE), Call("refit", "", FALSE)>>
            IN /\ disk' = [disk EXCEPT ![topic] = stored]
               /\ classifiers' = [classifiers EXCEPT ![topic] = r.self]
               /\ last' =
                    IF r.raised # "none"
                    THEN [log EXCEPT !.calls = done, !.raised = r.raised]
                    ELSE [log EXCEPT !.calls =
                             done
                             \o (IF found THEN <<Call("delete", "", FALSE)>> ELSE <<>>)
                             \o <<Call("add_reaction", "done", FALSE)>>]
    /\ added' = added + 1
    /\ UNCHANGED tasks

\* add_message_by_short, lines 189-192: the content joins the examples of
\* the entry found and the entry's answer is sent; the handler is suspended
\* at that await.
file_example(topic, log, content, ids) ==
    /\ added < MaxAdded
    /\ Cardinality(tasks) < MaxTasks
    /\ LET self == classifiers[topic]
           id == FirstOf(ids)
           entry == faq_entry(self.data, id)
           sofar == [log EXCEPT !.id = id,
                        !.calls = <<Call("add_message", "", FALSE),
                                    Call("reply", entry.answer, FALSE)>>]
       IN /\ disk' = [disk EXCEPT ![topic] = add_message(@, id, content)]
          /\ classifiers' = [classifiers EXCEPT ![topic].data = add_message(@, id, content)]
          /\ tasks' = tasks \cup {sofar}
          /\ added' = added + 1
          /\ last' = [sofar EXCEPT !.ret = "awaiting"]

\* add_message_by_short taking every token it cannot resolve for "ignore".
add_message_by_short_filing(topic, referenced, answer_abbreviation, found) ==
    /\ Serving(topic)
    /\ LET self == classifiers[topic]
           content == clean_message(referenced)
           abbreviation == Lower(answer_abbreviation)
           ids == faq_entry_by_short(self.data, abbreviation)
           log == [NoLog EXCEPT !.op = "add_message_by_short", !.topic = topic,
                                !.msg = referenced, !.short = answer_abbreviation]
       IN IF Len(content) = 0 THEN signal_unclear(log)
          ELSE IF abbreviation = "ignore" \/ ids = {}
          THEN file_nonsense(topic, log, content, found)
          ELSE found = FALSE /\ file_example(topic, log, content, ids)
    /\ UNCHANGED <<config, loadPc, views>>

\* add_message_by_short without its check that the content is not empty.
add_message_by_short_unchecked(topic, referenced, answer_abbreviation, found) ==
    /\ Serving(topic)
    /\ LET self == classifiers[topic]
           content == clean_message(referenced)
           abbreviation == Lower(answer_abbreviation)
           ids == faq_entry_by_short(self.data, abbreviation)
           log == [NoLog EXCEPT !.op = "add_message_by_short", !.topic = topic,
                                !.msg = referenced, !.short = answer_abbreviation]
       IN IF abbreviation = "ignore" THEN file_nonsense(topic, log, content, found)
          ELSE IF ids # {} THEN found = FALSE /\ file_example(topic, log, content, ids)
          ELSE found = FALSE /\ signal_unclear(log)
    /\ UNCHANGED <<config, loadPc, views>>

\* AutoFaq.add_message_by_short up to its first await.  found tells whether
\* the channel history holds a reply of the bot to the referenced message.
add_message_by_short(topic, referenced, answer_abbreviation, found) ==
    /\ Serving(topic)
    /\ LET self == classifiers[topic]
           content == clean_message(referenced)
           abbreviation == Lower(answer_abbreviation)
           ids == faq_entry_by_short(self.data, abbreviation)
           log == [NoLog EXCEPT !.op = "add_message_by_short", !.topic = topic,
                                !.msg = referenced, !.short = answer_abbreviation]
       IN IF Len(content) = 0 THEN signal_unclear(log)
          ELSE IF abbreviation = "ignore" THEN file_nonsense(topic, log, content, found)
          ELSE IF ids # {} THEN found = FALSE /\ file_example(topic, log, content, ids)
          ELSE found = FALSE /\ signal_unclear(log)
    /\ UNCHANGED <<config, loadPc, views>>

\* AutoFaq.add_message_by_short after its reply was sent: the refit.
add_message_by_short_resume(task) ==
    /\ task \in tasks
    /\ last.op = "none"
    /\ LET self == classifiers[task.topic]
       IN \E T \in Splits(Shell(self.test_split, disk[task.topic])) :
            LET r == refit(self, disk[task.topic], T)
            IN /\ classifiers' = [classifiers EXCEPT ![task.topic] = r.self]
               /\ last' = [task EXCEPT !.calls = @ \o <<Call("refit", "", FALSE)>>,
                                       !.raised = r.raised]
    /\ tasks' = tasks \ {task}
    /\ UNCHANGED <<config, disk, loadPc, views, added>>

\* create_answer, lines 200-201, 205-207 and 211-213: the requester is told
\* why (id: the entry in the way), False is returned, nothing is stored.
rejected(log, id) ==
    /\ last' = [log EXCEPT !.id = id,
                           !.calls = <<Call("interaction_send", "", FALSE)>>,
                           !.ret = "False"]
    /\ UNCHANGED <<disk, classifiers>>

\* create_answer, lines 215-216: the entry is stored, True is returned.
registered(topic, log, answer, short) ==
    /\ disk' = [disk EXCEPT ![topic] = add_faq_entry(@, answer, short)]
    /\ classifiers' = [classifiers EXCEPT ![topic].data = add_faq_entry(@, answer, short)]
    /\ last' = [log EXCEPT !.id = Len(classifiers[topic].data.entries),
                           !.calls = <<Call("add_faq_entry", "", FALSE)>>,
                           !.ret = "True"]

\* create_answer without its check of the reserved short.
create_answer_unreserved(topic, answer, short) ==
    /\ Serving(topic)
    /\ LET self == classifiers[topic]
           log == [NoLog EXCEPT !.op = "create_answer", !.topic = topic,
                                !.short = short, !.answer = answer]
       IN IF faq_entry_by_short(self.data, short) # {}
          THEN rejected(log, FirstOf(faq_entry_by_short(self.data, short)))
          ELSE IF faq_entry_by_answer(self.data, answer) # {}
          THEN rejected(log, FirstOf(faq_entry_by_answer(self.data, answer)))
          ELSE registered(topic, log, answer, short)
    /\ UNCHANGED <<config, loadPc, views, tasks, added>>

\* create_answer without its check that the answer is new.
create_answer_any_answer(topic, answer, short) ==
    /\ Serving(topic)
    /\ LET self == classifiers[topic]
           log == [NoLog EXCEPT !.op = "create_answer", !.topic = topic,
                                !.short = short, !.answer = answer]
       IN IF short = "ignore" THEN rejected(log, 0)
          ELSE IF faq_entry_by_short(self.data, short) # {}
          THEN rejected(log, FirstOf(faq_entry_by_short(self.data, short)))
          ELSE registered(topic, log, answer, short)
    /\ UNCHANGED <<config, loadPc, views, tasks, added>>

\* AutoFaq.create_answer
create_answer(topic, answer, short) ==
    /\ Serving(topic)
    /\ LET self == classifiers[topic]
           log == [NoLog EXCEPT !.op = "create_answer", !.topic = topic,
                                !.short = short, !.answer = answer]
       IN IF short = "ignore" THEN rejected(log, 0)
          ELSE IF faq_entry_by_short(self.data, short) # {}
          THEN rejected(log, FirstOf(faq_entry_by_short(self.data, short)))
          ELSE IF faq_entry_by_answer(self.data, answer) # {}
          THEN rejected(log, FirstOf(faq_entry_by_answer(self.data, answer)))
          ELSE registered(topic, log, answer, short)
    /\ UNCHANGED <<config, loadPc, views, tasks, added>>

Next ==
    \/ load_classifiers
    \/ event_loop
    \/ \E topic \in DOMAIN classifiers, message \in Messages :
           check_message(topic, message)
    \/ \E view \in views, vote \in Votes : vote_callback(view, vote)
    \/ \E topic \in DOMAIN classifiers, referenced \in Messages,
          token \in Tokens4Add, found \in BOOLEAN :
           add_message_by_short(topic, referenced, token, found)
    \/ \E task \in tasks : add_message_by_short_resume(task)
    \/ \E topic \in DOMAIN classifiers, answer \in Answers, short \in Shorts :
           create_answer(topic, answer, short)

Spec == Init /\ [][Next]_vars

\* ------------------------------------------------------------ start-up alone
\* More stored corpora: nonsense only, an entry without examples, one
\* example, and entries whose examples leave a gap in the labels.
StoredNonsenseOnly == [nonsense |-> <<TxtTwo>>, entries |-> <<>>]
StoredBareEntry == [nonsense |-> <<>>, entries |-> <<NewEntry("A1", "faq")>>]
StoredOneExample == [nonsense |-> <<TxtTwo>>, entries |-> <<NewEntry("A1", "faq")>>]
StoredWideGap ==
    [nonsense |-> <<TxtTwo>>,
     entries |-> <<NewEntry("A1", "faq"),
                   [NewEntry("A2", "hrs") EXCEPT !.messages = <<TxtTwo, TxtOne, TxtTwo>>]>>]
StoredLetters ==
    [nonsense |-> <<TxtOne, TxtOne>>,
     entries |-> <<[NewEntry("A1", "faq") EXCEPT !.messages = <<TxtOne, TxtOne>>]>>]
StoredBalanced ==
    [nonsense |-> <<TxtTwo, TxtTwo>>,
     entries |-> <<[NewEntry("A1", "faq") EXCEPT !.messages = <<TxtTwo, TxtOne>>]>>]
LoadCorpora ==
    StoredCorpora \cup {StoredNonsenseOnly, StoredBareEntry, StoredOneExample,
                        StoredWideGap, StoredLetters, StoredBalanced}

\* The state after Store.__init__, two topics configured.
InitLoad ==
    /\ config = <<"faq", "help">>
    /\ disk \in [{"faq", "help"} -> LoadCorpora]
    /\ classifiers = NoClassifiers
    /\ loadPc = [state |-> "start", idx |-> 1, in |-> "none", exc |-> "none"]
    /\ views = {}
    /\ tasks = {}
    /\ added = 0
    /\ last = NoLog

NextLoad == load_classifiers

SpecLoad == InitLoad /\ [][NextLoad]_vars


\* ------------------------------------------------------------ votes alone
\* A stored corpus with nonsense and two entries that have examples.
StoredTwoEntries ==
    [nonsense |-> <<TxtTwo>>,
     entries |-> <<[NewEntry("A1", "faq") EXCEPT !.messages = <<TxtTwo, TxtOne>>],
                   [NewEntry("A2", "hrs") EXCEPT !.messages = <<TxtTwo>>]>>]

\* The state after Store.__init__, one topic configured, no vote cast yet.
InitVotes ==
    /\ config = <<"faq">>
    /\ disk = [t \in {"faq"} |-> StoredTwoEntries]
    /\ classifiers = NoClassifiers
    /\ loadPc = [state |-> "start", idx |-> 1, in |-> "none", exc |-> "none"]
    /\ views = {}
    /\ tasks = {}
    /\ added = 0
    /\ last = NoLog

\* The topic is loaded; then messages come in and users vote on the answers.
NextVotes ==
    \/ load_classifiers
    \/ event_loop
    \/ \E topic \in DOMAIN classifiers : check_message(topic, MsgGap)
    \/ \E view \in views, vote \in Votes : cast_vote(view, vote, MaxBallots)

SpecVotes == InitVotes /\ [][NextVotes]_vars

\* ------------------------------------------------------------ properties
\* Whether a handler step made the call f.
Called(log, f) == \E i \in 1..Len(log.calls) : log.calls[i].f = f

\* The position of the first call f of a handler step (0: none).
FirstCall(log, f) ==
    IF Called(log, f)
    THEN CHOOSE i \in 1..Len(log.calls) :
            /\ log.calls[i].f = f
            /\ \A j \in 1..(i - 1) : log.calls[j].f # f
    ELSE 0

\* The last step was a check_message whose predict classified the message.
Classified == last.op = "check_message" /\ last.pred.ret \in {"entry", "nonsense"}

\* C1: whenever predict classifies a message, the installed pair was fitted on
\* the labelled corpus exactly as it is at that moment; no predict runs against
\* a pair trained before a corpus mutation.
C1_PredictNeverStale ==
    Classified =>
        classifiers[last.topic].classifier.seen = Labelled(classifiers[last.topic].data)

\* C2: in every state in which predict can run, the installed vectorizer and
\* classifier come from the same fit: both fitted, on the same training documents.
C2_PairFromOneFit ==
    \A topic \in DOMAIN classifiers :
        classifiers[topic].classifier.state # "None" =>
            /\ classifiers[topic].classifier.state = "fitted"
            /\ classifiers[topic].vectorizer.state = "fitted"
            /\ classifiers[topic].vectorizer.docs = classifiers[topic].classifier.docs

\* C3: when predict returns entry id e the most probable class is label e + 1,
\* it returns no entry exactly when the most probable class is label 0, and it
\* never returns an entry that has no examples.
C3_PredictMapsClassToEntry ==
    Classified =>
        /\ last.pred.ret = "entry" =>
              /\ last.pred.class = last.pred.id + 1
              /\ faq_entry(classifiers[last.topic].data, last.pred.id).messages # <<>>
        /\ last.pred.ret = "nonsense" <=> last.pred.class = 0

\* C4: a create_answer that returns success has created the entry and retrained
\* the topic before it returned.
C4_CreateAnswerRetrains ==
    (last.op = "create_answer" /\ last.ret = "True") =>
        /\ Called(last, "add_faq_entry")
        /\ Called(last, "refit")
        /\ FirstCall(last, "add_faq_entry") < FirstCall(last, "refit")

\* C5: add_message_by_short on an existing entry's short appends the example,
\* retrains, then resends the answer without the feedback view: whenever the
\* reply has been sent, the retrain was completed before it.
C5_RetrainBeforeReply ==
    (last.op = "add_message_by_short" /\ Called(last, "reply")) =>
        /\ Called(last, "add_message")
        /\ Called(last, "refit")
        /\ FirstCall(last, "add_message") < FirstCall(last, "refit")
        /\ FirstCall(last, "refit") < FirstCall(last, "reply")
        /\ last.calls[FirstCall(last, "reply")].view = FALSE

\* threshold(entry) of the threshold policy, from the entry's votes: the
\* midpoint without votes, else ratio * min + (1 - ratio) * max with
\* ratio = importance * up / votes + (1 - importance) / 2 and
\* importance = min(ln votes, 1).
PolicyThreshold(entry) ==
    LET votes == entry.up + entry.down
        importance == IF LogMilli(votes) < 1000 THEN LogMilli(votes) ELSE 1000
    IN IF votes = 0 THEN [num |-> 1, den |-> 2]
       ELSE [num |-> 3 * (2 * importance * entry.up + (1000 - importance) * votes)
                     + 7 * (2000 * votes - 2 * importance * entry.up - (1000 - importance) * votes),
             den |-> 10 * 2000 * votes]

\* C6: check_message sends an answer if and only if predict returned an entry
\* id and the probability is at least the threshold of that entry's current
\* votes; what it sends is that entry's answer with the feedback view, and
\* otherwise it sends no reply and adds no reaction.
C6_SendsIffConfident ==
    last.op = "check_message" =>
        LET self == classifiers[last.topic]
            confident ==
                /\ last.pred.ret = "entry"
                /\ last.pred.p * PolicyThreshold(faq_entry(self.data, last.pred.id)).den
                      >= 100 * PolicyThreshold(faq_entry(self.data, last.pred.id)).num
        IN IF confident
           THEN last.calls = <<Call("reply", faq_entry(self.data, last.pred.id).answer, TRUE)>>
           ELSE last.calls = <<>>

\* A check_message sent the answer of an entry that has an up vote.
C6_Witness ==
    /\ last.op = "check_message"
    /\ last.pred.ret = "entry"
    /\ Called(last, "reply")
    /\ faq_entry(classifiers[last.topic].data, last.pred.id).up > 0

\* An entry but for its vote counters.
SansVotes(entry) == [short |-> entry.short, answer |-> entry.answer, messages |-> entry.messages]

\* What apply_vote(answer_id, vote) is to do to the data d, giving e.
VoteEffect(d, e, answer_id, vote) ==
    /\ e.nonsense = d.nonsense
    /\ Len(e.entries) = Len(d.entries)
    /\ \A k \in 1..Len(d.entries) :
          /\ SansVotes(e.entries[k]) = SansVotes(d.entries[k])
          /\ e.entries[k].up =
                d.entries[k].up + (IF k = answer_id + 1 /\ vote > 0 THEN 1 ELSE 0)
          /\ e.entries[k].down =
                d.entries[k].down + (IF k = answer_id + 1 /\ vote < 0 THEN 1 ELSE 0)

\* C7: apply_vote increments only upVotes of the entry when vote > 0, only its
\* downVotes when vote < 0, nothing when vote = 0, and leaves the corpus, the
\* other entries' counters and the installed pair unchanged (no retrain).
C7_VoteFrame ==
    [][last'.op = "apply_vote" =>
        /\ VoteEffect(classifiers[last'.topic].data, classifiers'[last'.topic].data,
                      last'.id, last'.vote)
        /\ VoteEffect(disk[last'.topic], disk'[last'.topic], last'.id, last'.vote)
        /\ classifiers'[last'.topic].classifier = classifiers[last'.topic].classifier
        /\ classifiers'[last'.topic].vectorizer = classifiers[last'.topic].vectorizer
        /\ tasks' = tasks]_vars

\* A down vote was applied to an entry that already had an up vote.
C7_Witness ==
    /\ last.op = "apply_vote"
    /\ last.vote < 0
    /\ faq_entry(classifiers[last.topic].data, last.id).down > 0
    /\ faq_entry(classifiers[last.topic].data, last.id).up > 0

\* The counters of d's entries are at most those of e.
VotesKept(d, e) ==
    /\ Len(e.entries) >= Len(d.entries)
    /\ \A k \in 1..Len(d.entries) :
          /\ e.entries[k].up >= d.entries[k].up
          /\ e.entries[k].down >= d.entries[k].down

\* C8: over any sequence of operations (votes, additions, creations, refits
\* that reload the data) no entry's upVotes or downVotes ever decreases.
C8_VotesNeverDecrease ==
    [][/\ \A topic \in DOMAIN disk : VotesKept(disk[topic], disk'[topic])
       /\ \A topic \in DOMAIN classifiers :
             VotesKept(classifiers[topic].data, classifiers'[topic].data)]_vars

\* A refit reloaded the data of a topic that had votes.
C8_Witness ==
    /\ last.op = "add_message_by_short"
    /\ Called(last, "refit")
    /\ NumVotes(classifiers[last.topic].data) > 0

C10_ScoreNeverGates ==
    (loadPc.state = "raised" /\ loadPc.in = "scored") =>
        \A i \in 1..Len(config) : config[i] \in DOMAIN classifiers

\* a <= b and a < b for fractions with positive denominators.
Leq(a, b) == IF a.den = b.den THEN a.num <= b.num ELSE a.num * b.den <= b.num * a.den
Less(a, b) == IF a.den = b.den THEN a.num < b.num ELSE a.num * b.den < b.num * a.den

\* The threshold the engine of a topic computes for an entry, and the
\* votes cast on that entry.
Threshold(topic, id) == calculate_threshold(classifiers[topic], id)
UpVotes(topic, id) == faq_entry(classifiers[topic].data, id).up
DownVotes(topic, id) == faq_entry(classifiers[topic].data, id).down
VotesOf(topic, id) == UpVotes(topic, id) + DownVotes(topic, id)

\* The zero-vote midpoint 0.5 * minThreshold + 0.5 * maxThreshold.
Midpoint ==
    [num |-> MinThreshold.num * MaxThreshold.den + MaxThreshold.num * MinThreshold.den,
     den |-> 2 * MinThreshold.den * MaxThreshold.den]

\* C11: for every entry and every vote history, threshold(entry) lies in the
\* closed interval [minThreshold, maxThreshold].
C11_ThresholdWithinRange ==
    \A topic \in DOMAIN classifiers :
        \A id \in EntryIds(classifiers[topic].data) :
            /\ Leq(MinThreshold, Threshold(topic, id))
            /\ Leq(Threshold(topic, id), MaxThreshold)

\* check_message computed the threshold of an entry with three or more votes,
\* all of them up votes (the threshold is then minThreshold itself).
C11_Witness ==
    /\ last.op = "check_message"
    /\ last.pred.ret = "entry"
    /\ UpVotes(last.topic, last.pred.id) >= 3
    /\ DownVotes(last.topic, last.pred.id) = 0
    /\ Leq(Threshold(last.topic, last.pred.id), MinThreshold)

\* C12: of two vote histories with the same total of votes > 0, the one with
\* more up votes never has the higher threshold.
C12_ThresholdMonotone ==
    \A topic \in DOMAIN classifiers :
        \A i, j \in EntryIds(classifiers[topic].data) :
            (/\ VotesOf(topic, i) = VotesOf(topic, j)
             /\ VotesOf(topic, i) > 0
             /\ UpVotes(topic, i) > UpVotes(topic, j))
            => Leq(Threshold(topic, i), Threshold(topic, j))

\* Two entries of a topic have the same number of votes, two at least, one
\* of them more up votes than the other, and a strictly lower threshold.
C12_Witness ==
    \E topic \in DOMAIN classifiers :
        \E i, j \in EntryIds(classifiers[topic].data) :
            /\ VotesOf(topic, i) = VotesOf(topic, j)
            /\ VotesOf(topic, i) >= 2
            /\ UpVotes(topic, i) > UpVotes(topic, j)
            /\ Less(Threshold(topic, i), Threshold(topic, j))

\* C13: an entry that started without votes and got ten up votes and no down
\* vote has a threshold strictly below the zero-vote midpoint.
C13_TenUpVotesLowerThreshold ==
    \A topic \in DOMAIN classifiers :
        \A id \in EntryIds(classifiers[topic].data) :
            (UpVotes(topic, id) = 10 /\ DownVotes(topic, id) = 0)
            => Less(Threshold(topic, id), Midpoint)

\* The tenth up vote was just applied to an entry without down votes.
C13_Witness ==
    /\ last.op = "apply_vote"
    /\ last.vote > 0
    /\ UpVotes(last.topic, last.id) = 10
    /\ DownVotes(last.topic, last.id) = 0

\* The whitespace-separated tokens of a message: the pieces between spaces
\* that are not empty.
WordCount(message) ==
    Cardinality({i \in 1..Len(SplitSpace(message)) : SplitSpace(message)[i] # <<>>})

\* C14: predict on a message with fewer than 3 whitespace-separated tokens
\* returns (None, None) in every engine state, repeated spaces included.
C14_FewTokensRejected ==
    (last.op = "check_message" /\ WordCount(last.msg) < 3) => last.pred = NoneNone

\* The shorts of d are pairwise distinct without case, the answers pairwise
\* distinct, and no short is the reserved "ignore" without case.
WellKeyed(d) ==
    /\ \A i, j \in EntryIds(d) :
          i # j => /\ Lower(faq_entry(d, i).short) # Lower(faq_entry(d, j).short)
                   /\ faq_entry(d, i).answer # faq_entry(d, j).answer
    /\ \A i \in EntryIds(d) : Lower(faq_entry(d, i).short) # "ignore"

\* C15: after any sequence of create_answer calls the shorts of a topic's
\* entries are pairwise distinct without case, its answers are pairwise
\* distinct and no entry has the reserved short "ignore" in any case.
C15_KeysUniqueNoneReserved ==
    /\ \A topic \in DOMAIN disk : WellKeyed(disk[topic])
    /\ \A topic \in DOMAIN classifiers : WellKeyed(classifiers[topic].data)

\* C16: create_answer with the short "ignore" returns False and creates no
\* entry, in every corpus state.
C16_ReservedShortRejected ==
    [][(last'.op = "create_answer" /\ last'.short = "ignore") =>
          /\ last'.ret = "False"
          /\ ~Called(last', "add_faq_entry")
          /\ disk' = disk
          /\ classifiers' = classifiers]_vars

\* create_answer was called with the short "ignore" and an answer no entry
\* has, in a topic that has entries.
C16_Witness ==
    /\ last.op = "create_answer"
    /\ last.short = "ignore"
    /\ classifiers[last.topic].data.entries # <<>>
    /\ faq_entry_by_answer(classifiers[last.topic].data, last.answer) = {}

\* C17: create_answer with a short or an answer that is already registered
\* returns False and leaves the corpus (entries, examples, nonsense, vote
\* counters) and the trained pair unchanged.
C17_DuplicateRejected ==
    [][(/\ last'.op = "create_answer"
        /\ \/ faq_entry_by_short(classifiers[last'.topic].data, last'.short) # {}
           \/ faq_entry_by_answer(classifiers[last'.topic].data, last'.answer) # {})
       => /\ last'.ret = "False"
          /\ disk' = disk
          /\ classifiers' = classifiers]_vars

\* create_answer was rejected for its answer alone: the short is neither
\* reserved nor registered, the answer is registered.
C17_Witness ==
    /\ last.op = "create_answer"
    /\ last.ret = "False"
    /\ last.short # "ignore"
    /\ faq_entry_by_short(classifiers[last.topic].data, last.short) = {}
    /\ faq_entry_by_answer(classifiers[last.topic].data, last.answer) # {}

\* C18: add_message_by_short with a token that is not "ignore" and is no
\* entry's short leaves the corpus unchanged, retrains nothing, sends no
\* reply and puts the "unclear" reaction on the curator's command.
C18_UnresolvedTokenNoAction ==
    [][(/\ last'.op = "add_message_by_short"
        /\ Lower(last'.short) # "ignore"
        /\ faq_entry_by_short(classifiers[last'.topic].data, last'.short) = {})
       => /\ last'.calls = <<Call("add_reaction", "unclear", FALSE)>>
          /\ last'.raised = "none"
          /\ disk' = disk
          /\ classifiers' = classifiers
          /\ tasks' = tasks]_vars

\* add_message_by_short ran with an unknown token on a message that has
\* content, in a topic that has entries.
C18_Witness ==
    /\ last.op = "add_message_by_short"
    /\ last.short = "zzz"
    /\ clean_message(last.msg) # <<>>
    /\ classifiers[last.topic].data.entries # <<>>
    /\ Called(last, "add_reaction")

\* C19: vote evidence gains importance until 10 votes are reached: for every
\* total from 1 to 9 the importance is strictly below 1, so that the 0.5
\* default still contributes and an entry with up votes only stays strictly
\* above minThreshold; from 10 votes on the importance is 1 and such an entry
\* is at minThreshold.
C19_ImportanceGrowsUntilTen ==
    \A topic \in DOMAIN classifiers :
        \A id \in EntryIds(classifiers[topic].data) :
            /\ (VotesOf(topic, id) \in 1..9 /\ DownVotes(topic, id) = 0)
               => Less(MinThreshold, Threshold(topic, id))
            /\ (VotesOf(topic, id) >= 10 /\ DownVotes(topic, id) = 0)
               => (Leq(Threshold(topic, id), MinThreshold)
                   /\ Leq(MinThreshold, Threshold(topic, id)))

\* C20: when the referenced message normalizes to the empty string,
\* add_message_by_short takes no data action whatever the token: corpus and
\* pair are unchanged, nothing is sent or deleted, and the only effect is the
\* "unclear" reaction on the curator's command.
C20_EmptyContentNoAction ==
    [][(last'.op = "add_message_by_short" /\ clean_message(last'.msg) = <<>>)
       => /\ last'.calls = <<Call("add_reaction", "unclear", FALSE)>>
          /\ last'.raised = "none"
          /\ disk' = disk
          /\ classifiers' = classifiers
          /\ tasks' = tasks
          /\ views' = views]_vars

\* add_message_by_short ran with the token "ignore" on a message without
\* content, in a topic that is trained.
C20_Witness ==
    /\ last.op = "add_message_by_short"
    /\ last.short = "ignore"
    /\ last.msg = MsgPunct
    /\ classifiers[last.topic].classifier.state = "fitted"

=============================================================================
